---- MODULE Spec2Model ----
(***************************************************************************)
(* A model of SparseNN/grangernet/utils.py: the heatmap and graph          *)
(* renderers, the autocorrelation detector and the result store.           *)
(*                                                                         *)
(* Conventions.                                                            *)
(*  - A weight tensor W is a function effect -> cause -> lag -> Int.       *)
(*  - An optional Python value is a set: {} is None, {v} is the value v.   *)
(*  - A path is a sequence of tokens; "/" is the separator token.          *)
(*  - A norm is kept as its ord-th power (the sum of |w|^ord over lags).   *)
(*    x |-> x^ord is strictly increasing on the non-negative reals and     *)
(*    fixes 0 and 1, so order, maximum, zero tests and the values 0 and 1  *)
(*    of the working array are those of the norm itself.                   *)
(*  - A threshold is a non-negative rational [num, den].                   *)
(***************************************************************************)
EXTENDS Integers, Sequences, FiniteSets, TLC

VARIABLES W, call, err, autocorrelation_setting, dot, figures,
          dirs, images, archives, loaded, lastSave, fresh

vars == <<W, call, err, autocorrelation_setting, dot, figures,
          dirs, images, archives, loaded, lastSave, fresh>>

(***************************************************************************)
(* Bounds of the model and the shape of the tensor.                        *)
(***************************************************************************)
\* Total absolute weight of a tensor handed to a render call.
MaxL1 == 3

\* Total absolute weight of a tensor in the call sequences.
MaxSeqL1 == 1

\* Total absolute weight of the caller's tensor in the store sequences.
MaxStoreL1 == 0

\* p of line 38: the number of variables (effects = causes).
P == 2

\* K of line 38: the number of lags.
K == 2

Idx == 1..P

Lags == 1..K

\* Python's None and an optional value.
None == {}

Some(v) == {v}

The(o) == CHOOSE v \in o : TRUE

(***************************************************************************)
(* Inputs.                                                                 *)
(***************************************************************************)
Abs(x) == IF x < 0 THEN -x ELSE x

\* All integer vectors of length n whose absolute values sum to at most r.
RECURSIVE Vecs(_, _)
Vecs(n, r) ==
    IF n = 0 THEN {<<>>}
    ELSE UNION { { Append(s, v) : s \in Vecs(n - 1, r - Abs(v)) } : v \in (-r)..r }

\* The (p x p x K) array laid out from a flat vector, row-major.
TensorOf(s) ==
    [i \in Idx |-> [j \in Idx |-> [k \in Lags |-> s[((i - 1) * P + (j - 1)) * K + k]]]]

Tensors(r) == { TensorOf(s) : s \in Vecs(P * P * K, r) }

NamePool == <<"A", "B", "C">>

NameList(n) == [i \in 1..n |-> NamePool[i]]

\* var_names of the right length, one short, one long.
NameLists == { NameList(P), NameList(P - 1), NameList(P + 1) }

\* threshold: the default 0.1 (lines 8 and 133), and 3/4.
DefaultThreshold == [num |-> 1, den |-> 10]

Thresholds == { DefaultThreshold, [num |-> 3, den |-> 4] }

(***************************************************************************)
(* np.linalg.norm over the lag axis.                                        *)
(***************************************************************************)
RECURSIVE Pow(_, _)
Pow(x, n) == IF n = 0 THEN 1 ELSE x * Pow(x, n - 1)

RECURSIVE SumPow(_, _, _)
SumPow(v, k, ord) ==
    IF k = 0 THEN 0 ELSE Pow(Abs(v[k]), ord) + SumPow(v, k - 1, ord)

\* np.linalg.norm(W, ord=ord, axis=2), each entry as its ord-th power.
Norm(T, ord) == [i \in Idx |-> [j \in Idx |-> SumPow(T[i][j], K, ord)]]

\* np.max of a (p x p) array.
Max2D(M) ==
    LET vals == { M[i][j] : i \in Idx, j \in Idx }
    IN  CHOOSE m \in vals : \A v \in vals : v <= m

\* x >= threshold * m for norms kept as ord-th powers x and m.
AtLeast(x, threshold, m, ord) ==
    Pow(threshold.den, ord) * x >= Pow(threshold.num, ord) * m

\* A detector that looks at every entry instead of the diagonal.
AnyEntryNonZero(T) == ~ (\A i \in Idx, j \in Idx : Norm(T, 2)[i][j] = 0)

\* not np.all(np.diag(np.linalg.norm(W, axis=-1)) == 0)
_has_autocorrelation(T) == ~ (\A i \in Idx : Norm(T, 2)[i][i] = 0)

(***************************************************************************)
(* Paths and the file system.                                              *)
(***************************************************************************)
Last(s) == s[Len(s)]

\* A path without repeated or trailing separators: the file it names.
RECURSIVE Canon(_)
Canon(p) ==
    IF Len(p) = 0 THEN <<>>
    ELSE LET c == Canon(Tail(p))
         IN  IF Head(p) = "/" /\ (c = <<>> \/ Head(c) = "/") THEN c ELSE <<Head(p)>> \o c

\* Path(dst).mkdir(exist_ok=True, parents=True)
Mkdir(ds, dst) == ds \cup { Canon(dst) }

(***************************************************************************)
(* causal_graph                                                            *)
(***************************************************************************)
NoDot == [rankdir |-> "", layout |-> "", nodes |-> {}, edges |-> {}]

\* np.where(M >= threshold * m), as (effect, cause) pairs; m is np.max(M).
WhereAtLeast(M, m, threshold, ord) ==
    { p \in Idx \X Idx : AtLeast(M[p[1]][p[2]], threshold, m, ord) }

\* np.where(M < threshold * m).
WhereBelow(M, m, threshold, ord) ==
    { p \in Idx \X Idx : ~ AtLeast(M[p[1]][p[2]], threshold, m, ord) }

\* The layout attribute set at lines 155-156 ("dot" is graphviz's default).
GraphLayout(T, use_circo_layout) ==
    IF ~ _has_autocorrelation(T) THEN "circo" ELSE "dot"

\* Edges drawn from effect to cause.
GraphEdgesReversed(n, m, found, var_names) ==
    { [tail |-> var_names[p[1]], head |-> var_names[p[2]],
       rel |-> <<n[p[1]][p[2]], m>>] : p \in found }

\* The edges added by the loop of lines 166-169 for the index pairs found;
\* rel is the pair (norm, max) whose ratio sets the pen width.
GraphEdges(n, m, found, var_names) ==
    { [tail |-> var_names[p[2]], head |-> var_names[p[1]],
       rel |-> <<n[p[1]][p[2]], m>>] : p \in found }

\* var_names[cause] or var_names[effect] is out of range for some edge.
GraphIndexError(found, var_names) ==
    \E p \in found : p[1] > Len(var_names) \/ p[2] > Len(var_names)

\* The file dot.render(filename, dst, view=False, cleanup=True) leaves.
RenderedFile(dst, filename) == Canon(dst \o <<"/", filename, ".pdf">>)

GraphDsts == { None, Some(<<"out">>) }

\* causal_graph(W, var_names, threshold, use_circo_layout, dst); a value
\* used several times is bound once, as the element of a singleton.
GraphCall(args) ==
    \E var_names \in args.var_names, threshold \in args.threshold,
       use_circo_layout \in args.use_circo_layout, dst \in args.dst :
    \E n \in { Norm(W, 2) } :
    \E m \in { Max2D(n) } :
    \E found \in { WhereAtLeast(n, m, threshold, 2) } :
    \E failed \in { GraphIndexError(found, var_names) } :
    \E saved \in { ~ failed /\ dst # None } :
          /\ call' = [op |-> "causal_graph", var_names |-> var_names,
                      threshold |-> threshold, use_circo_layout |-> use_circo_layout,
                      dst |-> dst]
          /\ err' = IF failed THEN "IndexError" ELSE ""
          /\ dot' = IF failed THEN NoDot
                    ELSE [rankdir |-> "LR",
                          layout |-> GraphLayout(W, use_circo_layout),
                          nodes |-> { var_names[i] : i \in 1..Len(var_names) },
                          edges |-> GraphEdges(n, m, found, var_names)]
          /\ dirs' = IF saved THEN Mkdir(dirs, The(dst)) ELSE dirs
          /\ images' = IF saved THEN images \cup { RenderedFile(The(dst), "graph") }
                       ELSE images
          /\ figures' = <<>>
          /\ loaded' = <<>>
          /\ autocorrelation_setting' = None
          /\ fresh' = FALSE
          /\ UNCHANGED <<W, archives, lastSave>>

\* A direct call of the detector.
has_autocorrelation ==
    /\ call' = [op |-> "_has_autocorrelation"]
    /\ err' = ""
    /\ autocorrelation_setting' = Some(_has_autocorrelation(W))
    /\ dot' = NoDot
    /\ figures' = <<>>
    /\ loaded' = <<>>
    /\ fresh' = FALSE
    /\ UNCHANGED <<W, dirs, images, archives, lastSave>>

(***************************************************************************)
(* causal_heatmap                                                          *)
(***************************************************************************)
Modes == { "joint", "ind", "joint_threshold" }

Ords == { 1, 2 }

HeatmapDsts == { None, Some(<<"out">>), Some(<<"out", "/">>) }

\* The arrays the call holds after line 41: the caller's W and the array
\* np.linalg.norm allocates for _W_norm.
HeatmapFrame(T, ord) == [W |-> T, W_norm |-> Norm(T, ord)]

\* M[idx] = v
AssignAt(M, idx, v) ==
    [i \in Idx |-> [j \in Idx |-> IF <<i, j>> \in idx THEN v ELSE M[i][j]]]

\* A binarization that takes idx_below after idx_above has been written.
BinarizeInTurn(frame, threshold, ord) ==
    LET M         == frame.W_norm
        idx_above == WhereAtLeast(M, Max2D(M), threshold, ord)
        M1        == AssignAt(M, idx_above, 1)
        idx_below == WhereBelow(M1, Max2D(M1), threshold, ord)
    IN  [frame EXCEPT !.W_norm = AssignAt(M1, idx_below, 0)]

\* A binarization that thresholds the caller's tensor as well.
BinarizeCallerToo(frame, threshold, ord) ==
    LET M         == frame.W_norm
        m         == Max2D(M)
        idx_above == WhereAtLeast(M, m, threshold, ord)
    IN  [W      |-> [i \in Idx |-> [j \in Idx |-> [k \in Lags |->
                        IF <<i, j>> \in idx_above THEN 1 ELSE 0]]],
         W_norm |-> AssignAt(AssignAt(M, idx_above, 1), (Idx \X Idx) \ idx_above, 0)]

\* Lines 74-79: both index sets are taken from the norms, then written.
Binarize(frame, threshold, ord) ==
    LET M         == frame.W_norm
        m         == Max2D(M)
        idx_above == WhereAtLeast(M, m, threshold, ord)
        idx_below == WhereBelow(M, m, threshold, ord)
    IN  [frame EXCEPT !.W_norm = AssignAt(AssignAt(M, idx_above, 1), idx_below, 0)]

\* row.T of line 108: lag x cause.
Transposed(row) == [k \in Lags |-> [j \in Idx |-> row[j][k]]]

\* The figures of the 'ind' loop, one per pair of zip(var_names, W), the
\* first `count` of them.
IndFigures(T, vmax, count) ==
    [i \in 1..count |-> [cells |-> Transposed(T[i]), vmax |-> Some(vmax)]]

\* The files the 'ind' loop saves at line 127.
IndFiles(dst, file_header, var_names, count, ext) ==
    { Canon(dst \o <<file_header, "_", var_names[i], ".", ext>>) : i \in 1..count }

\* The file of line 70 and line 103.
OverallFile(dst, file_header, ext) == Canon(dst \o <<file_header, "_overall.", ext>>)

Min(a, b) == IF a < b THEN a ELSE b

\* The arguments of a call: threshold is read only in 'joint_threshold'
\* mode, and nothing is read when the mode is rejected at line 35.
HeatmapArgs ==
    { a \in [mode : Modes \cup {"other"}, ord : Ords, threshold : Thresholds,
             var_names : NameLists, dst : HeatmapDsts] :
        /\ a.mode # "joint_threshold" => a.threshold = DefaultThreshold
        /\ a.mode = "other" => a.ord = 2 /\ a.var_names = NameList(P) /\ a.dst = None }

\* causal_heatmap(W, var_names, mode, ord, threshold, dst, file_header, ext).
\* ticks_checked: whether plt.xticks rejects a label list whose length
\* differs from the tick list; matplotlib releases differ on it.
HeatmapCall(args) ==
    \E a \in args, file_header \in { "run" }, ext \in { "png" } :
    \E ticks_checked \in IF Len(a.var_names) = P THEN { FALSE } ELSE BOOLEAN :
    \E frame \in { HeatmapFrame(W, a.ord) } :
    \E after \in { IF a.mode = "joint_threshold"
                   THEN Binarize(frame, a.threshold, a.ord) ELSE frame } :
    \E count \in { Min(Len(a.var_names), P) } :
    \E shown \in { IF a.mode = "other" THEN 0 ELSE IF a.mode = "ind" THEN count ELSE 1 } :
    \E error \in { IF a.mode = "other" THEN "AssertionError"
                   ELSE IF shown > 0 /\ ticks_checked THEN "ValueError"
                   ELSE IF shown > 0 /\ a.dst # None /\ Last(The(a.dst)) # "/"
                        THEN "AssertionError"
                   ELSE "" } :
    \E saved \in { error = "" /\ shown > 0 /\ a.dst # None } :
          /\ call' = [op |-> "causal_heatmap", mode |-> a.mode, ord |-> a.ord,
                      threshold |-> a.threshold, var_names |-> a.var_names,
                      dst |-> a.dst, file_header |-> file_header, ext |-> ext]
          /\ err' = error
          /\ W' = after.W
          /\ autocorrelation_setting' =
                 IF a.mode = "other" THEN None ELSE Some(_has_autocorrelation(W))
          /\ figures' =
                 IF a.mode = "other" THEN <<>>
                 ELSE IF a.mode = "ind"
                      THEN IndFigures(W, Max2D(after.W_norm), IF error = "" THEN count ELSE 1)
                 ELSE << [cells |-> after.W_norm, vmax |-> None] >>
          /\ dirs' = IF saved THEN Mkdir(dirs, The(a.dst)) ELSE dirs
          /\ images' =
                 IF ~ saved THEN images
                 ELSE IF a.mode = "ind"
                      THEN images \cup IndFiles(The(a.dst), file_header, a.var_names, count, ext)
                 ELSE images \cup { OverallFile(The(a.dst), file_header, ext) }
          /\ dot' = NoDot
          /\ loaded' = <<>>
          /\ fresh' = FALSE
          /\ UNCHANGED <<archives, lastSave>>

(***************************************************************************)
(* save_results and load_results                                           *)
(***************************************************************************)
HParams == { [lag |-> 2, lam |-> 1], [lag |-> 3, lam |-> 5] }

StoreDsts == { <<"out">>, <<"out", "/">> }

Filenames == { "a", "b" }

\* '{}/{}.npz'.format(dst, filename)
SavePath(dst, filename) == dst \o <<"/", filename, ".npz">>

\* '{}.npz'.format(src)
LoadPath(src) == src \o <<".npz">>

\* The src a caller builds for what was saved under dst and filename.
SrcOf(dst, filename) == dst \o <<"/", filename>>

\* np.savez stores each keyword as an array: a tensor as it is (3-d), any
\* other object as a 0-d object array holding it.
AsArray(value, ndim) == [ndim |-> ndim, data |-> value]

\* ndarray.item() of a 0-d array.
Item(array) == array.data

\* A save that never writes W_submod.
SavezWithoutSubmod(T, hparams, W_submod) ==
    [W |-> AsArray(T, 3), hparams |-> AsArray(hparams, 0)]

\* The archive np.savez writes at lines 187-190.
Savez(T, hparams, W_submod) ==
    IF W_submod = None
    THEN [W |-> AsArray(T, 3), hparams |-> AsArray(hparams, 0)]
    ELSE [W |-> AsArray(T, 3), W_submod |-> AsArray(The(W_submod), 3),
          hparams |-> AsArray(hparams, 0)]

\* A write that keeps the fields of the archive already there.
WriteFileKeeping(fs, path, content) ==
    LET f0  == Canon(path)
        old == IF f0 \in DOMAIN fs THEN fs[f0] ELSE content
    IN  [f \in DOMAIN fs \cup { f0 } |->
            IF f = f0
            THEN [k \in DOMAIN old \cup DOMAIN content |->
                     IF k \in DOMAIN content THEN content[k] ELSE old[k]]
            ELSE fs[f]]

\* np.savez opens the file for writing: what was there is replaced.
WriteFile(fs, path, content) ==
    [f \in DOMAIN fs \cup { Canon(path) } |-> IF f = Canon(path) THEN content ELSE fs[f]]

\* The tuple load_results returns from an archive (lines 200-207).
Unpack(file) ==
    IF "W_submod" \in DOMAIN file
    THEN << file.W.data, file.W_submod.data, Item(file.hparams) >>
    ELSE << file.W.data, Item(file.hparams) >>

FileExists(fs, src) == Canon(LoadPath(src)) \in DOMAIN fs

\* load_results(src) on a file system holding the archive.
LoadResults(fs, src) == Unpack(fs[Canon(LoadPath(src))])

\* Every file a save of this model can write.
StoreFiles == { Canon(SavePath(d, f)) : d \in StoreDsts, f \in Filenames }

\* The other tensor a caller may save: W with its first weight raised.
Other(T) == [T EXCEPT ![1][1][1] = @ + 1]

\* save_results(filename, dst, T, hparams, W_submod). lastSave is a history
\* variable (the program keeps no such record): per file, the arguments of
\* the most recent save, and whether an earlier save there had a W_submod.
SaveCall(args) ==
    \E filename \in args.filename, dst \in args.dst, T \in args.W,
       hparams \in args.hparams, W_submod \in args.W_submod :
          /\ call' = [op |-> "save_results", filename |-> filename, dst |-> dst,
                      W |-> T, hparams |-> hparams, W_submod |-> W_submod]
          /\ err' = ""
          /\ dirs' = Mkdir(dirs, dst)
          /\ archives' = WriteFile(archives, SavePath(dst, filename),
                                   Savez(T, hparams, W_submod))
          /\ lastSave' = [lastSave EXCEPT ![Canon(SavePath(dst, filename))] =
                             Some([W |-> T, hparams |-> hparams, W_submod |-> W_submod,
                                   had_submod |-> \E r \in @ : r.had_submod \/ r.W_submod # None])]
          /\ loaded' = <<>>
          /\ dot' = NoDot
          /\ figures' = <<>>
          /\ autocorrelation_setting' = None
          /\ fresh' = FALSE
          /\ UNCHANGED <<W, images>>

\* load_results(src)
load_results ==
    \E filename \in Filenames, dst \in StoreDsts :
    \E src \in { SrcOf(dst, filename) } :
          /\ call' = [op |-> "load_results", src |-> src]
          /\ err' = IF FileExists(archives, src) THEN "" ELSE "FileNotFoundError"
          /\ loaded' = IF FileExists(archives, src) THEN LoadResults(archives, src) ELSE <<>>
          /\ dot' = NoDot
          /\ figures' = <<>>
          /\ autocorrelation_setting' = None
          /\ fresh' = FALSE
          /\ UNCHANGED <<W, dirs, images, archives, lastSave>>

(***************************************************************************)
(* Specifications.                                                         *)
(***************************************************************************)
NoCall == [op |-> "none"]

InitWith(tensors) ==
    /\ W \in tensors
    /\ call = NoCall
    /\ err = ""
    /\ autocorrelation_setting = None
    /\ dot = NoDot
    /\ figures = <<>>
    /\ dirs = {}
    /\ images = {}
    /\ archives = <<>>
    /\ loaded = <<>>
    /\ lastSave = [f \in StoreFiles |-> None]
    /\ fresh = TRUE

Init == InitWith(Tensors(MaxL1))

GraphArgs ==
    [var_names |-> NameLists, threshold |-> Thresholds,
     use_circo_layout |-> { None, Some(TRUE), Some(FALSE) }, dst |-> GraphDsts]

causal_heatmap == fresh /\ HeatmapCall(HeatmapArgs)

causal_graph == fresh /\ GraphCall(GraphArgs)

detect == fresh /\ has_autocorrelation

\* One render or detector call on any tensor of the bound.
Next ==
    \/ causal_graph
    \/ causal_heatmap
    \/ detect

Spec == Init /\ [][Next]_vars

\* The result store: any sequence of saves and loads, of the caller's W or
\* of another tensor.
InitStore == InitWith(Tensors(MaxStoreL1))

save_results ==
    SaveCall([filename |-> Filenames, dst |-> StoreDsts, W |-> { W, Other(W) },
              hparams |-> HParams, W_submod |-> { None, Some(Other(Other(W))) }])

NextStore ==
    \/ save_results
    \/ load_results

SpecStore == InitStore /\ [][NextStore]_vars

\* Any sequence of calls on one tensor, with var_names of the right length
\* and the default norm order.
SeqHeatmapArgs == { a \in HeatmapArgs : a.var_names = NameList(P) /\ a.ord = 2 }

heatmap_again == HeatmapCall(SeqHeatmapArgs)

graph_again ==
    GraphCall([var_names |-> { NameList(P) }, threshold |-> { DefaultThreshold },
               use_circo_layout |-> { None }, dst |-> GraphDsts])

save_again ==
    SaveCall([filename |-> { "a" }, dst |-> { <<"out">> }, W |-> { W },
              hparams |-> HParams, W_submod |-> { None }])

InitSeq == InitWith(Tensors(MaxSeqL1))

NextSeq ==
    \/ heatmap_again
    \/ graph_again
    \/ has_autocorrelation
    \/ save_again

SpecSeq == InitSeq /\ [][NextSeq]_vars

(***************************************************************************)
(* Properties.                                                             *)
(***************************************************************************)
\* The tuple a load is expected to return for the arguments of a save.
Saved(r) ==
    IF r.W_submod = None THEN << r.W, r.hparams >>
    ELSE << r.W, The(r.W_submod), r.hparams >>

SameTuple(a, b) == Len(a) = Len(b) /\ a = b

C9_TensorUnchanged == [][W' = W]_vars

\* A 'joint_threshold' heatmap whose working array was changed by the
\* binarization, after a graph was rendered to a file and W was saved.
C9_Witness ==
    /\ call.op = "causal_heatmap"
    /\ call.mode = "joint_threshold"
    /\ figures[1].cells # Norm(W, call.ord)
    /\ RenderedFile(<<"out">>, "graph") \in images
    /\ DOMAIN archives # {}

\* norm[effect, cause] >= threshold * (global maximum), from the weights.
Reaches(T, e, c, threshold, ord) ==
    AtLeast(Norm(T, ord)[e][c], threshold, Max2D(Norm(T, ord)), ord)

HasEdge(g, tail, head) == \E x \in g.edges : x.tail = tail /\ x.head = head

\* C2: a graph returned by causal_graph has every variable name as a node,
\* an edge var_names[cause] -> var_names[effect] exactly for the pairs with
\* norm[effect, cause] >= threshold * max, and no other edge.
C2_EdgesIffThreshold ==
    (call.op = "causal_graph" /\ err = "") =>
        LET names == call.var_names
            n     == Len(names)
        IN  /\ dot.nodes = { names[i] : i \in 1..n }
            /\ \A e \in Idx, c \in Idx :
                   Reaches(W, e, c, call.threshold, 2)
                     <=> (e <= n /\ c <= n /\ HasEdge(dot, names[c], names[e]))
            /\ \A x \in dot.edges :
                   \E e \in Idx, c \in Idx :
                       /\ e <= n /\ c <= n
                       /\ x.tail = names[c] /\ x.head = names[e]
                       /\ Reaches(W, e, c, call.threshold, 2)

\* A returned graph with an edge, and a pair with a non-zero norm, below
\* the threshold, that got none.
C2_Witness ==
    /\ call.op = "causal_graph"
    /\ err = ""
    /\ Len(call.var_names) = P
    /\ dot.edges # {}
    /\ \E e \in Idx, c \in Idx :
           /\ Norm(W, 2)[e][c] > 0
           /\ ~ HasEdge(dot, call.var_names[c], call.var_names[e])

\* C3: in 'joint_threshold' mode the plotted matrix holds only 0 and 1, and
\* a cell is 1 exactly when its norm is >= threshold * (maximum norm).
C3_Binarized ==
    (call.op = "causal_heatmap" /\ call.mode = "joint_threshold") =>
        /\ Len(figures) = 1
        /\ \A i \in Idx, j \in Idx :
               /\ figures[1].cells[i][j] \in {0, 1}
               /\ figures[1].cells[i][j] = 1
                    <=> Reaches(W, i, j, call.threshold, call.ord)

\* A binarized heatmap with a cell of norm above 1 set to 1 and a cell of
\* non-zero norm set to 0.
C3_Witness ==
    /\ call.op = "causal_heatmap"
    /\ call.mode = "joint_threshold"
    /\ \E i \in Idx, j \in Idx :
           Norm(W, call.ord)[i][j] > 1 /\ figures[1].cells[i][j] = 1
    /\ \E i \in Idx, j \in Idx :
           Norm(W, call.ord)[i][j] > 0 /\ figures[1].cells[i][j] = 0

\* C4: _has_autocorrelation(W) is true exactly when some W[i][i][k] is not
\* zero, whatever the off-diagonal entries are.
C4_DiagonalDecides ==
    call.op = "_has_autocorrelation" =>
        autocorrelation_setting = Some(\E i \in Idx, k \in Lags : W[i][i][k] # 0)

\* The detector answering false for a tensor with off-diagonal weights.
C4_Witness ==
    /\ call.op = "_has_autocorrelation"
    /\ autocorrelation_setting = Some(FALSE)
    /\ \E i \in Idx, j \in Idx, k \in Lags : W[i][j][k] # 0

\* C5: the graph returned for well-formed arguments flows left to right, and
\* its layout is circular exactly when use_circo_layout says so or, when it
\* is None, when W has no autocorrelation.
C5_LayoutFollowsOverride ==
    (call.op = "causal_graph" /\ err = "" /\ Len(call.var_names) = P) =>
        /\ dot.rankdir = "LR"
        /\ (dot.layout = "circo")
             <=> (IF call.use_circo_layout = None
                  THEN \A i \in Idx, k \in Lags : W[i][i][k] = 0
                  ELSE The(call.use_circo_layout))

\* C6: a thresholding call (otherwise well-formed) on a tensor whose maximum
\* norm is zero is rejected with an error: it returns no graph and plots
\* no binarized heatmap.
C6_ZeroMaxRejected ==
    ( /\ \/ call.op = "causal_graph"
         \/ call.op = "causal_heatmap" /\ call.mode = "joint_threshold"
      /\ Len(call.var_names) = P
      /\ \A i \in Idx, j \in Idx, k \in Lags : W[i][j][k] = 0 )
    => (err # "" /\ dot = NoDot /\ figures = <<>>)

\* C7: a heatmap call (otherwise well-formed) whose dst lacks the trailing separator raises before
\* any figure is produced, creates no directory and writes no image.
C7_FailsFastOnDst ==
    ( /\ call.op = "causal_heatmap"
      /\ call.mode \in Modes
      /\ Len(call.var_names) = P
      /\ call.dst # None
      /\ Last(The(call.dst)) # "/" )
    => (err # "" /\ figures = <<>> /\ dirs = {} /\ images = {})

\* C8: a render call whose var_names length differs from the tensor's first
\* dimension fails with an error.
C8_MismatchedNamesRejected ==
    ( /\ \/ call.op = "causal_graph"
         \/ call.op = "causal_heatmap" /\ call.mode \in Modes
      /\ Len(call.var_names) # P )
    => err # ""

====
